---- MODULE Spec2Model ----
(***************************************************************************)
(* Model of src/dongle/message.rs (icebox): the APDU Command state         *)
(* machines GetFirmwareVersion, GetWalletPublicKey, SignMessagePrepare,    *)
(* SignMessageSign, GetRandom and GetTrustedInput.  One behaviour follows  *)
(* one command instance from its constructor through any sequence of       *)
(* encode_next / decode_reply calls to into_reply (Spec), or applies the   *)
(* Response decoders FirmwareVersion::decode and WalletPublicKey::decode   *)
(* to payloads (ResponseSpec).                                             *)
(***************************************************************************)
EXTENDS Integers, Sequences, FiniteSets, TLC

(* ------------------------------ bounds -------------------------------- *)
\* longest BIP32 path drawn (the constructors admit up to 10)
MaxPath == 1
\* longest short message drawn for SignMessagePrepare
MaxMsg == 3
\* length of the one long message and of the one long transaction (a
\* payload beyond what one u8 length byte counts)
LongLen == 300
\* longest serialized transaction drawn for GetTrustedInput
MaxTx == 3
\* apdu_size arguments are drawn from MinApdu..MaxApdu and BigApdu
MinApdu == 4
MaxApdu == 13
BigApdu == 400
\* longest payload of a raw reply handed to decode_reply (before SW1 SW2)
MaxPayload == 3
\* GetRandom counts are drawn from 0..MaxCount
MaxCount == 2
\* packets the driver sends in one behaviour
MaxPkts == 4
\* longest payload handed to FirmwareVersion::decode
MaxFw == 9
\* longest address in a payload handed to WalletPublicKey::decode
MaxAddr == 2

(* --------------------------- protocol constants ----------------------- *)
\* constants::apdu::ledger (btchip protocol)
BTCHIP_CLA == 224
INS_GET_FIRMWARE_VERSION == 196
INS_GET_WALLET_PUBLIC_KEY == 64
INS_SIGN_MESSAGE == 78
INS_GET_RANDOM == 192
INS_GET_TRUSTED_INPUT == 66
SW_OK == 36864

(* ------------------------------ helpers ------------------------------- *)
Min(a, b) == IF a <= b THEN a ELSE b

\* `x as u8`
AsU8(x) == x % 256

\* write_u32::<BigEndian>
BE32(x) == << (x \div 16777216) % 256, (x \div 65536) % 256, (x \div 256) % 256, x % 256 >>

\* write_u16::<BigEndian>
BE16(x) == << (x \div 256) % 256, x % 256 >>

\* for childnum in self.bip32_path { ret.write_u32::<BigEndian>(*childnum) }
RECURSIVE PathBytes(_)
PathBytes(p) ==
    IF p = << >> THEN << >> ELSE BE32(Head(p)) \o PathBytes(Tail(p))

\* all sequences over S of length 0..n
SeqsUpTo(S, n) == UNION { [1..k -> S] : k \in 0..n }

\* bytes after the first n of a sequence
Drop(s, n) == SubSeq(s, n + 1, Len(s))

(* ------------------------------ inputs -------------------------------- *)
Commands == { "GetFirmwareVersion", "GetWalletPublicKey", "SignMessagePrepare",
              "SignMessageSign", "GetRandom", "GetTrustedInput" }

PathVals == { 44, 16909060 }
Paths == SeqsUpTo(PathVals, MaxPath)

\* the message of n bytes: 0x41, 0x42, ... (no two neighbours alike)
Message(n) == [ i \in 1..n |-> (64 + i) % 256 ]
Messages == { Message(n) : n \in 0..MaxMsg } \cup { Message(LongLen) }

\* the serialized transaction of n bytes: 0x01, 0x02, ...
Tx(n) == [ i \in 1..n |-> i % 256 ]
Vouts == { 258 }

\* the cut-point lists the serializer may return for a buffer of n bytes:
\* strictly increasing offsets, first 0, last n
CutLists(n) ==
    IF n = 0 THEN { << 0 >> }
    ELSE { c \in SeqsUpTo(0..n, n + 1) :
             /\ Len(c) >= 2
             /\ c[1] = 0
             /\ c[Len(c)] = n
             /\ \A i \in 1..(Len(c) - 1) : c[i] < c[i + 1] }

\* encode_transaction_with_cutpoints(tx, apdu_size): (ser_tx, cuts)
encode_transaction_with_cutpoints ==
    UNION { { << Tx(n), c >> : c \in CutLists(n) } : n \in 0..MaxTx }
    \cup { << Tx(LongLen), << 0, LongLen >> >> }

Sizes == (MinApdu..MaxApdu) \cup { BigApdu }

PayloadBytes == { 171 }
\* SW1 SW2 of 0x9000 (success) and 0x6A80
StatusWords == { << 144, 0 >>, << 106, 128 >> }
\* raw replies: fewer than 2 bytes, or a payload followed by SW1 SW2
Replies ==
    { << >>, << 144 >>, << 0 >> }
    \cup { p \o s : p \in SeqsUpTo(PayloadBytes, MaxPayload), s \in StatusWords }

VARIABLES
    cmd,          \* which Command variant this instance is
    sent,         \* sent: bool (single-packet commands)
    sent_length,  \* SignMessagePrepare.sent_length
    sent_cuts,    \* GetTrustedInput.sent_cuts
    reply,        \* reply: Vec<u8>
    sw,           \* sw: u16
    bip32_path,   \* bip32_path: &[u32]
    message,      \* message: &[u8]
    count,        \* GetRandom.count
    ser_tx,       \* GetTrustedInput.ser_tx
    cuts,         \* GetTrustedInput.cuts
    vout,         \* GetTrustedInput.vout
    op,           \* the last operation called on the instance
    apdu_size,    \* argument of the last encode_next call
    out,          \* what the last encode_next did: "Some", "None" or a panic
    pkt,          \* the packet of the last encode_next, when out = "Some"
    data,         \* argument of the last decode_reply call
    res,          \* result of the last decode_reply call
    taken,        \* what into_reply returned
    npkts,        \* number of packets returned so far
    stream,       \* payload bytes the device has read from the packets
    decoder,      \* the Response whose decode was called last
    payload,      \* argument of the last Response::decode call
    decoded       \* result of the last Response::decode call

vars == << cmd, sent, sent_length, sent_cuts, reply, sw, bip32_path, message,
           count, ser_tx, cuts, vout, op, apdu_size, out, pkt, data, res,
           taken, npkts, stream, decoder, payload, decoded >>

fields == << cmd, bip32_path, message, count, ser_tx, cuts, vout >>
progress == << sent, sent_length, sent_cuts >>
recorded == << reply, sw >>
response == << decoder, payload, decoded >>

\* Result<(), Error> of decode_reply; NoResult when the last call was another
NoResult == [ kind |-> "none", code |-> 0 ]
Ok == [ kind |-> "Ok", code |-> 0 ]
UnexpectedEof == [ kind |-> "UnexpectedEof", code |-> 0 ]
Unsupported == [ kind |-> "Unsupported", code |-> 0 ]
ApduBadStatus(w) == [ kind |-> "ApduBadStatus", code |-> w ]

\* the ways encode_next can panic: unreachable!(), a usize subtraction that
\* overflows in a build with overflow checks, assert!(ret.len() < apdu_size)
Panics == { "unreachable", "overflow", "assert" }

\* no panic has unwound the caller and into_reply has not consumed the instance
Alive == out \notin Panics /\ op # "into_reply"

(* ------------------------------ new() --------------------------------- *)
\* the fields every constructor sets: sent: false / sent_length: 0 /
\* sent_cuts: 0, reply: vec![], sw: 0
Constructed ==
    /\ sent = FALSE /\ sent_length = 0 /\ sent_cuts = 0
    /\ reply = << >> /\ sw = 0
    /\ op = "new" /\ apdu_size = 0 /\ out = "idle" /\ pkt = << >>
    /\ data = << >> /\ res = NoResult /\ taken = << >>
    /\ npkts = 0 /\ stream = << >>
    /\ decoder = "none" /\ payload = << >> /\ decoded = NoResult

GetFirmwareVersion_new ==
    /\ cmd = "GetFirmwareVersion"
    /\ bip32_path = << >> /\ message = << >> /\ count = 0
    /\ ser_tx = << >> /\ cuts = << >> /\ vout = 0
    /\ Constructed

\* assert!(bip32_path.len() < 11)
GetWalletPublicKey_new ==
    /\ cmd = "GetWalletPublicKey"
    /\ bip32_path \in Paths /\ Len(bip32_path) < 11
    /\ message = << >> /\ count = 0
    /\ ser_tx = << >> /\ cuts = << >> /\ vout = 0
    /\ Constructed

\* assert!(bip32_path.len() < 11); assert!(message.len() < 0x10000)
SignMessagePrepare_new ==
    /\ cmd = "SignMessagePrepare"
    /\ bip32_path \in Paths /\ Len(bip32_path) < 11
    /\ message \in Messages /\ Len(message) < 65536
    /\ count = 0
    /\ ser_tx = << >> /\ cuts = << >> /\ vout = 0
    /\ Constructed

SignMessageSign_new ==
    /\ cmd = "SignMessageSign"
    /\ bip32_path = << >> /\ message = << >> /\ count = 0
    /\ ser_tx = << >> /\ cuts = << >> /\ vout = 0
    /\ Constructed

GetRandom_new ==
    /\ cmd = "GetRandom"
    /\ count \in 0..MaxCount
    /\ bip32_path = << >> /\ message = << >>
    /\ ser_tx = << >> /\ cuts = << >> /\ vout = 0
    /\ Constructed

GetTrustedInput_new ==
    /\ cmd = "GetTrustedInput"
    /\ \E sc \in encode_transaction_with_cutpoints :
         /\ ser_tx = sc[1]
         /\ cuts = sc[2]
    /\ vout \in Vouts
    /\ bip32_path = << >> /\ message = << >> /\ count = 0
    /\ Constructed

Init ==
    \/ GetFirmwareVersion_new
    \/ GetWalletPublicKey_new
    \/ SignMessagePrepare_new
    \/ SignMessageSign_new
    \/ GetRandom_new
    \/ GetTrustedInput_new

(* --------------------------- encode_next ------------------------------ *)
\* one encode_next(sz) call that did r; the device reads the bytes `got`
\* from the packet it is sent
Called(sz, r, got) ==
    /\ r.out = "Some" => npkts < MaxPkts
    /\ op' = "encode_next"
    /\ apdu_size' = sz
    /\ out' = r.out
    /\ pkt' = r.pkt
    /\ npkts' = IF r.out = "Some" THEN npkts + 1 ELSE npkts
    /\ stream' = IF r.out = "Some" THEN stream \o got ELSE stream
    /\ data' = << >> /\ res' = NoResult
    /\ UNCHANGED << fields, recorded, taken, response >>

None == [ out |-> "None", pkt |-> << >> ]
Panic(why) == [ out |-> why, pkt |-> << >> ]
Some(p) == [ out |-> "Some", pkt |-> p ]

\* the one packet of a single-packet command
GetFirmwareVersion_packet ==
    << BTCHIP_CLA, INS_GET_FIRMWARE_VERSION, 0, 0, 0 >>

GetWalletPublicKey_packet ==
    << BTCHIP_CLA, INS_GET_WALLET_PUBLIC_KEY, 0, 0,
       AsU8(1 + 4 * Len(bip32_path)), AsU8(Len(bip32_path)) >>
    \o PathBytes(bip32_path)

SignMessageSign_packet ==
    << BTCHIP_CLA, INS_SIGN_MESSAGE, 128, 0, 1, 0 >>

GetRandom_packet ==
    << BTCHIP_CLA, INS_GET_RANDOM, 0, 0, count >>

\* fault: the sent flag is set and never consulted
SingleShot_resend(packet) ==
    /\ Alive
    /\ \E sz \in Sizes :
         LET r == Some(packet)
         IN  /\ sent' = TRUE
             /\ UNCHANGED << sent_length, sent_cuts >>
             /\ Called(sz, r, Drop(r.pkt, 5))

\* if self.sent { None } else { self.sent = true; Some(packet) }
SingleShot(packet) ==
    /\ Alive
    /\ \E sz \in Sizes :
         LET r == IF sent THEN None ELSE Some(packet)
         IN  /\ sent' = TRUE
             /\ UNCHANGED << sent_length, sent_cuts >>
             /\ Called(sz, r, Drop(r.pkt, 5))

GetFirmwareVersion_encode_next ==
    cmd = "GetFirmwareVersion" /\ SingleShot(GetFirmwareVersion_packet)

GetWalletPublicKey_encode_next ==
    cmd = "GetWalletPublicKey" /\ SingleShot(GetWalletPublicKey_packet)

SignMessageSign_encode_next ==
    cmd = "SignMessageSign" /\ SingleShot(SignMessageSign_packet)

GetRandom_encode_next ==
    cmd = "GetRandom" /\ SingleShot(GetRandom_packet)

(* ---------------- SignMessagePrepare::encode_next --------------------- *)
\* let init_data_len = 1 + 4 * self.bip32_path.len() + 2
SMP_init_data_len == 1 + 4 * Len(bip32_path) + 2

\* fault: the difference is taken as a signed number
MinWrapped_signed(d, n) == Min(d, n)

\* cmp::min(a - b, n) over usize, when the build lets a - b wrap: a
\* negative difference d wraps to 2^64 + d, which exceeds every n here
MinWrapped(d, n) == IF d < 0 THEN n ELSE Min(d, n)

\* fault: space forgets the header, apdu_size - init_data_len
SMP_first_message_len_no_header(sz) ==
    MinWrapped(sz - SMP_init_data_len, Len(message))

\* space = apdu_size - init_data_len - header_len;
\* message_len = cmp::min(space, self.message.len())
SMP_first_message_len(sz) ==
    MinWrapped(sz - SMP_init_data_len - 5, Len(message))

\* packet_len = cmp::min(apdu_size - 5, remaining_len)
SMP_next_packet_len(sz) ==
    MinWrapped(sz - 5, Len(message) - sent_length)

\* fault: the slice forgets the offset, &self.message[0..n]
SMP_message_slice_from_start(n) ==
    SubSeq(message, 1, n)

\* &self.message[self.sent_length..self.sent_length + n]
SMP_message_slice(n) ==
    SubSeq(message, sent_length + 1, sent_length + n)

\* the first packet: header, packet_len as u8, path, total length, message
SMP_first_packet(sz) ==
    LET message_len == SMP_first_message_len(sz)
        packet_len == SMP_init_data_len + message_len
    IN  << BTCHIP_CLA, INS_SIGN_MESSAGE, 0, 1, AsU8(packet_len), AsU8(Len(bip32_path)) >>
        \o PathBytes(bip32_path)
        \o BE16(Len(message) % 65536)
        \o SubSeq(message, 1, message_len)

\* a subsequent packet: header, packet_len as u8, message
SMP_next_packet(sz) ==
    LET packet_len == SMP_next_packet_len(sz)
    IN  << BTCHIP_CLA, INS_SIGN_MESSAGE, 0, 128, AsU8(packet_len) >>
        \o SMP_message_slice(packet_len)

\* encode_next(apdu_size) as [out, pkt, sent_length]; overflow_checks says
\* whether the build panics on a usize subtraction that overflows
SMP_encode_next(sz, overflow_checks) ==
    IF sent_length > Len(message) THEN
        Panic("unreachable") @@ [ sent_length |-> sent_length ]
    ELSE IF sent_length = Len(message) THEN
        None @@ [ sent_length |-> sent_length ]
    ELSE IF sent_length = 0 THEN
        IF overflow_checks /\ sz - SMP_init_data_len - 5 < 0 THEN
            Panic("overflow") @@ [ sent_length |-> sent_length ]
        ELSE
            Some(SMP_first_packet(sz))
            @@ [ sent_length |-> sent_length + SMP_first_message_len(sz) ]
    ELSE
        IF overflow_checks /\ sz - 5 < 0 THEN
            Panic("overflow") @@ [ sent_length |-> sent_length ]
        ELSE
            Some(SMP_next_packet(sz))
            @@ [ sent_length |-> sent_length + SMP_next_packet_len(sz) ]

\* the message bytes the device reads from a packet: param2 = 0x01 marks
\* the first part, where they follow the header, the path-length byte, the
\* path and the 2-byte total length; otherwise they follow the header
SMP_message_bytes(p) ==
    IF p = << >> THEN << >>
    ELSE IF p[4] = 1 THEN Drop(p, 5 + 1 + 4 * p[6] + 2)
    ELSE Drop(p, 5)

SignMessagePrepare_encode_next ==
    /\ cmd = "SignMessagePrepare"
    /\ Alive
    /\ \E sz \in Sizes, overflow_checks \in BOOLEAN :
         LET r == SMP_encode_next(sz, overflow_checks)
         IN  /\ sent_length' = r.sent_length
             /\ UNCHANGED << sent, sent_cuts >>
             /\ Called(sz, r, SMP_message_bytes(r.pkt))

(* ------------------ GetTrustedInput::encode_next ---------------------- *)
\* self.cuts[i] (the source indexes from 0)
Cut(i) == cuts[i + 1]

\* fault: the fragment stops one byte early
GTI_fragment_short(k) == SubSeq(ser_tx, Cut(k) + 1, Cut(k + 1) - 1)

\* &self.ser_tx[self.cuts[k]..self.cuts[k + 1]]
GTI_fragment(k) == SubSeq(ser_tx, Cut(k) + 1, Cut(k + 1))

\* the packet before any cut is put into it
GTI_header ==
    IF sent_cuts = 0
    THEN << BTCHIP_CLA, INS_GET_TRUSTED_INPUT, 0, 0, 0 >> \o BE32(vout)
    ELSE << BTCHIP_CLA, INS_GET_TRUSTED_INPUT, 128, 0, 0 >>

\* while ret.len() + next_cut_len < apdu_size { ret.extend(fragment);
\* self.sent_cuts += 1; if self.sent_cuts < self.cuts.len() - 1
\* { next_cut_len = ... } else { break } }, from ret and sent_cuts = k
RECURSIVE GTI_pack(_, _, _)
GTI_pack(ret, k, sz) ==
    LET next_cut_len == Cut(k + 1) - Cut(k)
    IN  IF Len(ret) + next_cut_len < sz THEN
            IF k + 1 < Len(cuts) - 1
            THEN GTI_pack(ret \o GTI_fragment(k), k + 1, sz)
            ELSE [ ret |-> ret \o GTI_fragment(k), sent_cuts |-> k + 1 ]
        ELSE [ ret |-> ret, sent_cuts |-> k ]

\* fault: the room left after the whole fragments is filled with the
\* start of the next fragment
GTI_packed_fill(sz) ==
    LET p == GTI_pack(GTI_header, sent_cuts, sz)
        room == sz - 1 - Len(p.ret)
    IN  IF p.sent_cuts < Len(cuts) - 1 /\ room > 0
        THEN [ ret |-> p.ret \o SubSeq(ser_tx, Cut(p.sent_cuts) + 1, Cut(p.sent_cuts) + room),
               sent_cuts |-> p.sent_cuts ]
        ELSE p

\* the loop of encode_next, entered with the header
GTI_packed(sz) == GTI_pack(GTI_header, sent_cuts, sz)

\* ret[4] = (ret.len() - 5) as u8
GTI_mark_size(ret) == [ ret EXCEPT ![5] = AsU8(Len(ret) - 5) ]

\* encode_next(apdu_size) as [out, pkt, sent_cuts]; the loop has advanced
\* sent_cuts before assert!(ret.len() < apdu_size) is evaluated
GTI_encode_next(sz) ==
    IF sent_cuts >= Len(cuts) THEN
        Panic("unreachable") @@ [ sent_cuts |-> sent_cuts ]
    ELSE IF sent_cuts = Len(cuts) - 1 THEN
        None @@ [ sent_cuts |-> sent_cuts ]
    ELSE
        LET packed == GTI_packed(sz)
        IN  IF Len(packed.ret) < sz
            THEN Some(GTI_mark_size(packed.ret)) @@ [ sent_cuts |-> packed.sent_cuts ]
            ELSE Panic("assert") @@ [ sent_cuts |-> packed.sent_cuts ]

\* the transaction bytes the device reads from a packet: param1 = 0x00
\* marks the first part, where they follow the header and the 4-byte vout;
\* otherwise they follow the header
GTI_tx_bytes(p) ==
    IF p = << >> THEN << >>
    ELSE IF p[3] = 0 THEN Drop(p, 9)
    ELSE Drop(p, 5)

GetTrustedInput_encode_next ==
    /\ cmd = "GetTrustedInput"
    /\ Alive
    /\ \E sz \in Sizes :
         LET r == GTI_encode_next(sz)
         IN  /\ sent_cuts' = r.sent_cuts
             /\ UNCHANGED << sent, sent_length >>
             /\ Called(sz, r, GTI_tx_bytes(r.pkt))

(* --------------------------- decode_reply ----------------------------- *)
\* fault: the status bytes are taken in the other order
StatusWord_swapped(d) == ((d[Len(d)] * 256) % 65536) + d[Len(d) - 1]

\* let sw2 = data.pop().unwrap(); let sw1 = data.pop().unwrap();
\* ((sw1 as u16) << 8) + sw2 as u16
StatusWord(d) == ((d[Len(d) - 1] * 256) % 65536) + d[Len(d)]

\* data once both status bytes are popped
Popped(d) == SubSeq(d, 1, Len(d) - 2)

\* fault: a reply starts the command over
Decoded_restart(d, r) ==
    /\ op' = "decode_reply"
    /\ data' = d
    /\ res' = r
    /\ apdu_size' = 0 /\ out' = "idle" /\ pkt' = << >>
    /\ sent' = FALSE /\ sent_length' = 0 /\ sent_cuts' = 0
    /\ UNCHANGED << fields, taken, npkts, stream, response >>

\* what the driver keeps of one decode_reply(d) call that returned r
Decoded(d, r) ==
    /\ op' = "decode_reply"
    /\ data' = d
    /\ res' = r
    /\ apdu_size' = 0 /\ out' = "idle" /\ pkt' = << >>
    /\ UNCHANGED << fields, progress, taken, npkts, stream, response >>

\* fault: the payload is appended to the payloads of earlier replies
Generic_decode_reply_append(d) ==
    IF Len(d) < 2
    THEN [ res |-> UnexpectedEof, reply |-> reply, sw |-> sw ]
    ELSE [ res |-> Ok, reply |-> reply \o Popped(d), sw |-> StatusWord(d) ]

\* decode_reply of GetFirmwareVersion, GetWalletPublicKey, SignMessageSign,
\* GetRandom and GetTrustedInput, as [res, reply, sw]
Generic_decode_reply(d) ==
    IF Len(d) < 2
    THEN [ res |-> UnexpectedEof, reply |-> reply, sw |-> sw ]
    ELSE [ res |-> Ok, reply |-> Popped(d), sw |-> StatusWord(d) ]

Generic_decode ==
    /\ Alive
    /\ \E d \in Replies :
         LET r == Generic_decode_reply(d)
         IN  /\ reply' = r.reply
             /\ sw' = r.sw
             /\ Decoded(d, r.res)

GetFirmwareVersion_decode_reply == cmd = "GetFirmwareVersion" /\ Generic_decode

GetWalletPublicKey_decode_reply == cmd = "GetWalletPublicKey" /\ Generic_decode

SignMessageSign_decode_reply == cmd = "SignMessageSign" /\ Generic_decode

GetRandom_decode_reply == cmd = "GetRandom" /\ Generic_decode

GetTrustedInput_decode_reply == cmd = "GetTrustedInput" /\ Generic_decode

\* if data.len() > 2 { return Err(Error::Unsupported) }, evaluated after
\* the two pops
SMP_unsupported(d) == Len(Popped(d)) > 2

\* fault: the status word is recorded and never validated
SMP_check_status_never(w) == Ok

\* if self.sw != apdu::ledger::sw::OK { Err(Error::ApduBadStatus(self.sw)) }
\* else { Ok(()) }
SMP_check_status(w) == IF w # SW_OK THEN ApduBadStatus(w) ELSE Ok

\* fault: the reply is recorded before its payload is looked at
SMP_decode_reply_records_first(d) ==
    IF Len(d) < 2 THEN
        [ res |-> UnexpectedEof, reply |-> reply, sw |-> sw ]
    ELSE IF SMP_unsupported(d) THEN
        [ res |-> Unsupported, reply |-> Popped(d), sw |-> StatusWord(d) ]
    ELSE
        [ res |-> SMP_check_status(StatusWord(d)),
          reply |-> Popped(d),
          sw |-> StatusWord(d) ]

\* SignMessagePrepare::decode_reply, as [res, reply, sw]
SMP_decode_reply(d) ==
    IF Len(d) < 2 THEN
        [ res |-> UnexpectedEof, reply |-> reply, sw |-> sw ]
    ELSE IF SMP_unsupported(d) THEN
        [ res |-> Unsupported, reply |-> reply, sw |-> sw ]
    ELSE
        [ res |-> SMP_check_status(StatusWord(d)),
          reply |-> Popped(d),
          sw |-> StatusWord(d) ]

SignMessagePrepare_decode_reply ==
    /\ cmd = "SignMessagePrepare"
    /\ Alive
    /\ \E d \in Replies :
         LET r == SMP_decode_reply(d)
         IN  /\ reply' = r.reply
             /\ sw' = r.sw
             /\ Decoded(d, r.res)

(* ---------------------------- into_reply ------------------------------ *)
\* fn into_reply(self) -> (u16, Vec<u8>) { (self.sw, self.reply) }
IntoReply == << sw, reply >>

into_reply ==
    /\ Alive
    /\ op' = "into_reply"
    /\ taken' = IntoReply
    /\ apdu_size' = 0 /\ out' = "idle" /\ pkt' = << >>
    /\ data' = << >> /\ res' = NoResult
    /\ UNCHANGED << fields, progress, recorded, npkts, stream, response >>

Next ==
    \/ GetFirmwareVersion_encode_next
    \/ GetWalletPublicKey_encode_next
    \/ SignMessagePrepare_encode_next
    \/ SignMessageSign_encode_next
    \/ GetRandom_encode_next
    \/ GetTrustedInput_encode_next
    \/ GetFirmwareVersion_decode_reply
    \/ GetWalletPublicKey_decode_reply
    \/ SignMessagePrepare_decode_reply
    \/ SignMessageSign_decode_reply
    \/ GetRandom_decode_reply
    \/ GetTrustedInput_decode_reply
    \/ into_reply

Spec == Init /\ [][Next]_vars

(* ========================= Response::decode =========================== *)
\* Result<Self, Error> of the Response decoders.  Error::ResponseWrongLength(
\* ins, len); the errors try! converts from secp256k1 and from
\* String::from_utf8; a panic of the slice index
ResponseWrongLength(ins, len) == [ kind |-> "ResponseWrongLength", ins |-> ins, len |-> len ]
KeyFormatError == [ kind |-> "KeyFormatError", code |-> 0 ]
TextEncodingError == [ kind |-> "TextEncodingError", code |-> 0 ]
IndexOutOfBounds == [ kind |-> "panic", code |-> 0 ]

\* Option<u8>: None is the empty sequence, Some(x) the sequence of x
OptionNone == << >>
OptionSome(x) == << x >>

\* b & mask, for a mask of one bit
BitAnd(b, mask) == ((b \div mask) % 2) * mask

\* the first byte of a payload takes every value of a u8
FlagBytes == 0..255

\* the payload of n bytes whose first byte is b0
FwPayload(b0, n) == [ i \in 1..n |-> IF i = 1 THEN b0 ELSE 16 + i ]
FwPayloads == { FwPayload(b0, n) : b0 \in FlagBytes, n \in 0..MaxFw }

\* fault: one more byte of vestigial trailer is tolerated
Fw_wrong_length_lax(d) == Len(d) < 5 \/ Len(d) > 9

\* data.len() < 5 || data.len() > 8
Fw_wrong_length(d) == Len(d) < 5 \/ Len(d) > 8

\* if data.len() >= 7 { Some(data[i]) } else { None }, i counted from 0
Fw_loader(d, i) == IF Len(d) >= 7 THEN OptionSome(d[i + 1]) ELSE OptionNone

\* FirmwareVersion::decode(data)
FirmwareVersion_decode(d) ==
    IF Fw_wrong_length(d) THEN
        ResponseWrongLength(INS_GET_FIRMWARE_VERSION, Len(d))
    ELSE
        [ kind |-> "FirmwareVersion",
          compressed |-> BitAnd(d[1], 1) # 0,
          has_screen_and_buttons |-> BitAnd(d[1], 2) # 0,
          external_screen_and_buttons |-> BitAnd(d[1], 4) # 0,
          nfc_payment_ext |-> BitAnd(d[1], 8) # 0,
          ble_low_power_ext |-> BitAnd(d[1], 16) # 0,
          tee |-> BitAnd(d[1], 32) # 0,
          architecture |-> d[2],
          major_version |-> d[3],
          minor_version |-> d[4],
          patch_version |-> d[5],
          loader_major_version |-> Fw_loader(d, 5),
          loader_minor_version |-> Fw_loader(d, 6) ]

\* a serialized public key of 33 bytes with the given first byte
Key(prefix) == << prefix >> \o [ i \in 1..32 |-> i ]
\* an address of n letters: "a", "ab", ...
Address(n) == [ i \in 1..n |-> 96 + i ]
Chaincode == [ i \in 1..32 |-> 128 + i ]

\* [pk_len, pk, addr_len, addr, chaincode]
WalletPayload(pk, addr) ==
    << Len(pk) >> \o pk \o << Len(addr) >> \o addr \o Chaincode

\* every truncation of w, the whole of w included
Truncations(w) == { SubSeq(w, 1, k) : k \in 0..Len(w) }

\* payloads whose declared lengths, key and address are all as they should be
WellFormedPayloads == { WalletPayload(Key(2), Address(n)) : n \in 0..MaxAddr }

\* well-formed payloads, their truncations, a payload one byte too long, a
\* key that is no point encoding (at the right and at a wrong total
\* length), an empty key, an address that is no text
WalletPayloads ==
    UNION { Truncations(w) : w \in WellFormedPayloads }
    \cup { w \o << 0 >> : w \in WellFormedPayloads }
    \cup { WalletPayload(Key(5), Address(1)),
           WalletPayload(Key(5), Address(1)) \o << 0 >>,
           WalletPayload(<< >>, Address(1)),
           WalletPayload(Key(3), << 255 >>),
           WalletPayload(Key(3), << 195, 169 >>) }

\* PublicKey::from_slice (secp256k1, outside the repository): a key is 33
\* bytes starting 0x02 or 0x03, or 65 bytes starting 0x04, 0x06 or 0x07;
\* the curve equation is not modelled, the keys drawn are taken to be on
\* the curve
PublicKey_from_slice_ok(k) ==
    \/ Len(k) = 33 /\ k[1] \in { 2, 3 }
    \/ Len(k) = 65 /\ k[1] \in { 4, 6, 7 }

\* String::from_utf8 (std): whether the bytes from position i on are
\* well-formed UTF-8
RECURSIVE Utf8From(_, _)
Utf8From(b, i) ==
    LET n == Len(b) - i + 1
        cont(j) == b[j] \in 128..191
    IN  IF i > Len(b) THEN TRUE
        ELSE IF b[i] < 128 THEN Utf8From(b, i + 1)
        ELSE IF b[i] \in 194..223 THEN
            n >= 2 /\ cont(i + 1) /\ Utf8From(b, i + 2)
        ELSE IF b[i] \in 224..239 THEN
            /\ n >= 3
            /\ cont(i + 1) /\ cont(i + 2)
            /\ b[i] = 224 => b[i + 1] >= 160
            /\ b[i] = 237 => b[i + 1] <= 159
            /\ Utf8From(b, i + 3)
        ELSE IF b[i] \in 240..244 THEN
            /\ n >= 4
            /\ cont(i + 1) /\ cont(i + 2) /\ cont(i + 3)
            /\ b[i] = 240 => b[i + 1] >= 144
            /\ b[i] = 244 => b[i + 1] <= 143
            /\ Utf8From(b, i + 4)
        ELSE FALSE

String_from_utf8_ok(b) == Utf8From(b, 1)

\* 2 + pk_len > data.len()
Wallet_eof(d, pk_len) == 2 + pk_len > Len(d)

\* 2 + pk_len + addr_len + 32 != data.len()
Wallet_wrong_length(d, pk_len, addr_len) == 2 + pk_len + addr_len + 32 # Len(d)

\* WalletPublicKey::decode(data); data[0] is read before any length check
WalletPublicKey_decode(d) ==
    IF Len(d) = 0 THEN IndexOutOfBounds
    ELSE
        LET pk_len == d[1]
            pk == SubSeq(d, 2, 1 + pk_len)
            addr_len == d[2 + pk_len]
            addr == SubSeq(d, 2 + pk_len + 1, 2 + pk_len + addr_len)
        IN  IF Wallet_eof(d, pk_len) THEN UnexpectedEof
            ELSE IF ~PublicKey_from_slice_ok(pk) THEN KeyFormatError
            ELSE IF Wallet_wrong_length(d, pk_len, addr_len) THEN
                ResponseWrongLength(INS_GET_WALLET_PUBLIC_KEY, Len(d))
            ELSE IF ~String_from_utf8_ok(addr) THEN TextEncodingError
            ELSE [ kind |-> "WalletPublicKey",
                   public_key |-> pk,
                   b58_address |-> addr,
                   chaincode |-> Drop(d, 2 + pk_len + addr_len) ]

\* no Command instance takes part in decoding a response
NoCommand ==
    /\ cmd = "none"
    /\ bip32_path = << >> /\ message = << >> /\ count = 0
    /\ ser_tx = << >> /\ cuts = << >> /\ vout = 0
    /\ Constructed

ResponseInit == NoCommand

\* no panic of a decoder has unwound the caller
Returned == decoded # IndexOutOfBounds

\* what the driver keeps of one Response::decode(d) call that did r
ResponseDecoded(which, d, r) ==
    /\ decoder' = which
    /\ payload' = d
    /\ decoded' = r
    /\ UNCHANGED << fields, progress, recorded, op, apdu_size, out, pkt,
                    data, res, taken, npkts, stream >>

Response_FirmwareVersion ==
    /\ Returned
    /\ \E d \in FwPayloads :
         ResponseDecoded("FirmwareVersion", d, FirmwareVersion_decode(d))

Response_WalletPublicKey ==
    /\ Returned
    /\ \E d \in WalletPayloads :
         ResponseDecoded("WalletPublicKey", d, WalletPublicKey_decode(d))

ResponseNext ==
    \/ Response_FirmwareVersion
    \/ Response_WalletPublicKey

ResponseSpec == ResponseInit /\ [][ResponseNext]_vars

(* ============================== claims ================================ *)
\* the fixed prefix of the command's first packet
FirstPrefix ==
    CASE cmd = "SignMessagePrepare" -> 5 + SMP_init_data_len
      [] cmd = "GetTrustedInput" -> 9
      [] cmd = "GetWalletPublicKey" -> 5 + 1 + 4 * Len(bip32_path)
      [] cmd = "SignMessageSign" -> 6
      [] OTHER -> 5

\* what is left to send: message bytes, fragments, or the single packet
Remaining ==
    CASE cmd = "SignMessagePrepare" -> Len(message) - sent_length
      [] cmd = "GetTrustedInput" -> Len(cuts) - 1 - sent_cuts
      [] OTHER -> IF sent THEN 0 ELSE 1

\* the status word of a raw reply of at least 2 bytes, big-endian
BigEndianStatus(d) == 256 * d[Len(d) - 1] + d[Len(d)]

\* C1: SignMessagePrepare: the message bytes read from the packets, in the
\* order the packets are returned, are at every moment the first
\* sent_length bytes of the message, and once encode_next returns nothing
\* they are the whole message: no byte duplicated, omitted or reordered.
C1_MessageReassembled ==
    cmd = "SignMessagePrepare" =>
        /\ stream = SubSeq(message, 1, sent_length)
        /\ (op = "encode_next" /\ out = "None") => stream = message

\* C1 witness: a three-byte message sent in three packets and exhausted
C1_Witness ==
    /\ cmd = "SignMessagePrepare"
    /\ op = "encode_next" /\ out = "None"
    /\ npkts = 3
    /\ Len(message) = 3
    /\ stream = message

\* C2: GetTrustedInput: the transaction bytes read from the packets, in the
\* order the packets are returned, are at every moment the serialized
\* transaction up to the current cut, and once encode_next returns nothing
\* they are the whole serialized transaction.
C2_TransactionReassembled ==
    cmd = "GetTrustedInput" =>
        /\ stream = SubSeq(ser_tx, 1, Cut(sent_cuts))
        /\ (op = "encode_next" /\ out = "None") => stream = ser_tx

\* C2 witness: a three-byte transaction of three fragments, sent in more
\* than one packet and exhausted
C2_Witness ==
    /\ cmd = "GetTrustedInput"
    /\ op = "encode_next" /\ out = "None"
    /\ npkts >= 2
    /\ Len(cuts) = 4
    /\ stream = ser_tx

\* C3: GetTrustedInput never splits a fragment: the transaction bytes of
\* every packet encode_next returns are exactly ser_tx from the cut the
\* call started at to the cut it stopped at, the cut index never goes back
\* and stays within the cut list.
C3_WholeFragments ==
    [][ (cmd = "GetTrustedInput" /\ op' = "encode_next" /\ out' = "Some") =>
          /\ sent_cuts <= sent_cuts'
          /\ sent_cuts' <= Len(cuts) - 1
          /\ GTI_tx_bytes(pkt') = SubSeq(ser_tx, Cut(sent_cuts) + 1, Cut(sent_cuts'))
          /\ Len(GTI_tx_bytes(pkt')) = Cut(sent_cuts') - Cut(sent_cuts) ]_vars

\* C3 witness: a continuation packet that carries two whole fragments while
\* a third is still to be sent
C3_Witness ==
    /\ cmd = "GetTrustedInput"
    /\ op = "encode_next" /\ out = "Some"
    /\ pkt[3] = 128
    /\ Len(GTI_tx_bytes(pkt)) = 2
    /\ Len(cuts) >= 4
    /\ sent_cuts = 3

\* C4: termination of sending: with max_packet_size at least the fixed
\* prefix of the first packet, every encode_next call that returns a
\* packet leaves strictly less to send than before.
C4_EveryPacketProgresses ==
    [][ (op' = "encode_next" /\ out' = "Some" /\ apdu_size' >= FirstPrefix) =>
          Remaining' < Remaining ]_vars

\* C5: GetTrustedInput: on every encode_next call the final
\* assert!(ret.len() < apdu_size) holds, and every packet returned is
\* strictly shorter than max_packet_size.
C5_SizeAssertionHolds ==
    (cmd = "GetTrustedInput" /\ op = "encode_next") =>
        /\ out # "assert"
        /\ out = "Some" => Len(pkt) < apdu_size

\* C6: SignMessagePrepare: with max_packet_size at least the fixed prefix
\* of the first packet, every packet returned is at most max_packet_size
\* long, header included.
C6_PacketWithinSize ==
    (cmd = "SignMessagePrepare" /\ op = "encode_next" /\ out = "Some"
        /\ apdu_size >= FirstPrefix) =>
        Len(pkt) <= apdu_size

\* C6 witness: a first packet and a continuation packet that fill
\* max_packet_size exactly
C6_Witness ==
    /\ cmd = "SignMessagePrepare"
    /\ op = "encode_next" /\ out = "Some"
    /\ apdu_size >= FirstPrefix
    /\ pkt[4] = 128
    /\ Len(pkt) = apdu_size
    /\ npkts = 2

\* C7: length byte: in every packet returned by encode_next of every
\* command, the byte at offset 4 is the number of bytes after the 5-byte
\* header, and that number is at most 255 (stated for max_packet_size no
\* smaller than the first packet's fixed prefix, where no subtraction
\* overflows and debug and release builds agree).
C7_LengthByte ==
    (op = "encode_next" /\ out = "Some" /\ apdu_size >= FirstPrefix) =>
        /\ Len(pkt) - 5 <= 255
        /\ pkt[5] = Len(pkt) - 5

\* C8: status-word split: a raw reply of fewer than 2 bytes fails with
\* UnexpectedEof; [0x90, 0x00] succeeds and into_reply then returns
\* (0x9000, empty); for the five commands other than SignMessagePrepare
\* every reply of n >= 2 bytes succeeds and into_reply then returns the
\* big-endian status word of its last two bytes and its first n - 2 bytes.
C8_StatusWordSplit ==
    op = "decode_reply" =>
        /\ Len(data) < 2 => res = UnexpectedEof
        /\ data = << 144, 0 >> => (res = Ok /\ IntoReply = << 36864, << >> >>)
        /\ (cmd # "SignMessagePrepare" /\ Len(data) >= 2) =>
              /\ res = Ok
              /\ IntoReply = << BigEndianStatus(data), SubSeq(data, 1, Len(data) - 2) >>

\* C8 witness: GetTrustedInput has decoded a reply with payload and a
\* status word whose two bytes differ
C8_Witness ==
    /\ cmd = "GetTrustedInput"
    /\ op = "decode_reply"
    /\ Len(data) = 4
    /\ res = Ok
    /\ sw = 27264
    /\ Len(reply) = 2

\* C9: SignMessagePrepare::decode_reply fails with Unsupported on every
\* raw reply of 3 bytes or more.
C9_PayloadRejected ==
    (cmd = "SignMessagePrepare" /\ op = "decode_reply" /\ Len(data) >= 3) =>
        res = Unsupported

\* C10: status validation: on a reply of exactly 2 bytes
\* SignMessagePrepare::decode_reply returns Ok exactly when the status
\* word is 0x9000 and otherwise ApduBadStatus with that status word; the
\* five other commands return Ok for every status word of a reply of at
\* least 2 bytes and only record it.
C10_StatusValidation ==
    op = "decode_reply" =>
        /\ (cmd = "SignMessagePrepare" /\ Len(data) = 2) =>
              /\ res = Ok <=> BigEndianStatus(data) = 36864
              /\ res # Ok => res = ApduBadStatus(BigEndianStatus(data))
        /\ (cmd # "SignMessagePrepare" /\ Len(data) >= 2) =>
              /\ res = Ok
              /\ sw = BigEndianStatus(data)

\* C10 witness: SignMessagePrepare has failed with ApduBadStatus(0x6A80) on
\* a payload-empty reply
C10_Witness ==
    /\ cmd = "SignMessagePrepare"
    /\ op = "decode_reply"
    /\ data = << 106, 128 >>
    /\ res = ApduBadStatus(27264)

\* the commands whose encode_next is guarded by the sent flag
SingleShotCommands ==
    { "GetFirmwareVersion", "GetWalletPublicKey", "SignMessageSign", "GetRandom" }

\* C11: single-shot commands: whatever decode_reply calls come in between
\* and whatever max_packet_size is passed, an encode_next call returns a
\* packet when no packet was returned before and returns nothing
\* otherwise, and after any encode_next call exactly one packet has been
\* returned; no other call changes the number of packets returned.  So
\* exactly the first encode_next call returns a packet.
C11_OnlyFirstCallSends ==
    [][ (cmd \in SingleShotCommands) =>
          /\ (op' = "encode_next") =>
                (out' = (IF npkts = 0 THEN "Some" ELSE "None") /\ npkts' = 1)
          /\ (op' # "encode_next") => (npkts' = npkts) ]_vars

\* C11 witness: GetRandom has returned its packet, decoded a reply with a
\* failing status word, and a later encode_next with another
\* max_packet_size returned nothing
C11_Witness ==
    /\ cmd = "GetRandom"
    /\ op = "encode_next" /\ out = "None"
    /\ apdu_size = BigApdu
    /\ npkts = 1
    /\ sw = 27264

\* bit k of byte b
Bit(b, k) == (b \div (2 ^ k)) % 2 = 1

\* C12: FirmwareVersion::decode succeeds exactly on payloads of 5 to 8
\* bytes and otherwise fails with ResponseWrongLength carrying the actual
\* length; on success the six capability flags are bits 0..5 of byte 0,
\* bytes 1..4 are architecture, major, minor and patch, and the loader
\* major and minor versions are bytes 5 and 6 when the length is 7 or 8
\* and both absent when it is 5 or 6.
C12_FirmwareVersionDecoded ==
    decoder = "FirmwareVersion" =>
        /\ (decoded.kind = "FirmwareVersion") <=> (Len(payload) \in 5..8)
        /\ (Len(payload) \notin 5..8) =>
              (decoded.kind = "ResponseWrongLength" /\ decoded.len = Len(payload))
        /\ (decoded.kind = "FirmwareVersion") =>
              /\ decoded.compressed = Bit(payload[1], 0)
              /\ decoded.has_screen_and_buttons = Bit(payload[1], 1)
              /\ decoded.external_screen_and_buttons = Bit(payload[1], 2)
              /\ decoded.nfc_payment_ext = Bit(payload[1], 3)
              /\ decoded.ble_low_power_ext = Bit(payload[1], 4)
              /\ decoded.tee = Bit(payload[1], 5)
              /\ decoded.architecture = payload[2]
              /\ decoded.major_version = payload[3]
              /\ decoded.minor_version = payload[4]
              /\ decoded.patch_version = payload[5]
              /\ (Len(payload) \in { 7, 8 }) =>
                    /\ decoded.loader_major_version = << payload[6] >>
                    /\ decoded.loader_minor_version = << payload[7] >>
              /\ (Len(payload) \in { 5, 6 }) =>
                    /\ decoded.loader_major_version = << >>
                    /\ decoded.loader_minor_version = << >>

\* C12 witness: an 8-byte payload with flags 0x2A decoded to tee, nfc and
\* screen set, the other flags clear, and both loader versions present
C12_Witness ==
    /\ decoder = "FirmwareVersion"
    /\ Len(payload) = 8
    /\ payload[1] = 42
    /\ decoded.kind = "FirmwareVersion"
    /\ decoded.tee /\ decoded.nfc_payment_ext /\ decoded.has_screen_and_buttons
    /\ ~decoded.compressed
    /\ Len(decoded.loader_major_version) = 1

\* the payload holds both length bytes it declares: pk_len at offset 0 and
\* addr_len at offset 1 + pk_len
DeclaresLengths(d) == Len(d) >= 1 /\ Len(d) >= 2 + d[1]

\* 2 + pk_len + addr_len + 32 of a payload that declares both lengths
DeclaredLength(d) == 2 + d[1] + d[2 + d[1]] + 32

\* d is a well-formed payload cut short by one or more bytes
Truncated(d) ==
    \E w \in WellFormedPayloads : Len(d) < Len(w) /\ d = SubSeq(w, 1, Len(d))

\* C13: WalletPublicKey::decode fails with ResponseWrongLength on every
\* payload whose total length is not the 2 + pk_len + addr_len + 32 its
\* two length bytes declare, and on every well-formed payload truncated by
\* one or more bytes (stated for non-empty payloads: the empty payload is
\* the case of C14).
C13_WrongLengthReported ==
    (decoder = "WalletPublicKey" /\ Len(payload) > 0) =>
        /\ (DeclaresLengths(payload) /\ Len(payload) # DeclaredLength(payload)) =>
              decoded.kind = "ResponseWrongLength"
        /\ Truncated(payload) => decoded.kind = "ResponseWrongLength"

\* C14: the Response decoders are total: FirmwareVersion::decode and
\* WalletPublicKey::decode return a value or an Error for every payload,
\* and never abort.
C14_DecodersTotal ==
    decoder \in { "FirmwareVersion", "WalletPublicKey" } =>
        decoded.kind # "panic"

\* the number a sequence of bytes writes, big-endian
RECURSIVE BigEndian(_)
BigEndian(b) ==
    IF b = << >> THEN 0
    ELSE 256 * BigEndian(SubSeq(b, 1, Len(b) - 1)) + b[Len(b)]

\* C15: SignMessagePrepare framing: of the packets encode_next returns,
\* the first and only the first has param2 = 0x01 and carries, after the
\* header, the path-length byte, the path (4 big-endian bytes per index)
\* and the 2-byte big-endian message length, then message bytes; every
\* later packet has param2 = 0x80 and carries only message bytes (stated
\* for max_packet_size no smaller than the first packet's fixed prefix,
\* where no subtraction overflows).
C15_PrepareFraming ==
    [][ (cmd = "SignMessagePrepare" /\ op' = "encode_next" /\ out' = "Some"
            /\ apdu_size' >= FirstPrefix) =>
          /\ pkt'[4] = (IF npkts = 0 THEN 1 ELSE 128)
          /\ (npkts = 0) =>
                /\ pkt'[6] = Len(bip32_path)
                /\ Len(pkt') >= 5 + 1 + 4 * Len(bip32_path) + 2
                /\ \A i \in 1..Len(bip32_path) :
                      BigEndian(SubSeq(pkt', 6 + 4 * i - 3, 6 + 4 * i)) = bip32_path[i]
                /\ BigEndian(SubSeq(pkt', 6 + 4 * Len(bip32_path) + 1,
                                     6 + 4 * Len(bip32_path) + 2)) = Len(message)
                /\ Drop(pkt', 8 + 4 * Len(bip32_path))
                      = SubSeq(message, 1, sent_length')
          /\ (npkts > 0) =>
                Drop(pkt', 5) = SubSeq(message, sent_length + 1, sent_length') ]_vars

\* C16: GetTrustedInput framing: of the packets encode_next returns, the
\* first and only the first has param1 = 0x00 and carries the 4-byte
\* big-endian vout right after the header; every later packet has
\* param1 = 0x80 and carries transaction bytes only.
C16_TrustedInputFraming ==
    [][ (cmd = "GetTrustedInput" /\ op' = "encode_next" /\ out' = "Some") =>
          /\ pkt'[3] = (IF npkts = 0 THEN 0 ELSE 128)
          /\ (npkts = 0) =>
                /\ Len(pkt') >= 9
                /\ BigEndian(SubSeq(pkt', 6, 9)) = vout
                /\ Drop(pkt', 9) = SubSeq(ser_tx, 1, Cut(sent_cuts'))
          /\ (npkts > 0) =>
                Drop(pkt', 5) = SubSeq(ser_tx, Cut(sent_cuts) + 1, Cut(sent_cuts')) ]_vars

\* C17: GetTrustedInput reply is last-write-wins: before any reply is
\* decoded into_reply would return status word 0 and an empty payload; a
\* successful decode_reply makes it the status word and the payload of
\* that reply alone, whatever was recorded before; no other call changes
\* it; and into_reply returns it.
C17_LastWriteWins ==
    [][ (cmd = "GetTrustedInput") =>
          /\ (op = "new") => (IntoReply = << 0, << >> >>)
          /\ (op' = "decode_reply" /\ res' = Ok) =>
                (IntoReply' = << BigEndianStatus(data'),
                                SubSeq(data', 1, Len(data') - 2) >>)
          /\ ~(op' = "decode_reply" /\ res' = Ok) => (IntoReply' = IntoReply)
          /\ (op' = "into_reply") => (taken' = IntoReply) ]_vars

\* C17 witness: two packets were returned and into_reply has returned the
\* status word 0x6A80 of a decoded reply with an empty payload
C17_Witness ==
    /\ cmd = "GetTrustedInput"
    /\ op = "into_reply"
    /\ npkts = 2
    /\ taken = << 27264, << >> >>

\* C18: encode and decode touch disjoint state: for every command a
\* decode_reply call leaves sent, sent_length and sent_cuts as they were
\* and an encode_next call leaves the recorded status word and reply as
\* they were; and a SignMessagePrepare with message bytes left to send,
\* whose last decode_reply failed with ApduBadStatus or Unsupported, still
\* returns a continuation packet that takes the message further when
\* encode_next is called with room for a message byte.
C18_DisjointState ==
    [][ /\ (op' = "decode_reply") => (progress' = progress)
        /\ (op' = "encode_next") => (recorded' = recorded)
        /\ (cmd = "SignMessagePrepare" /\ op = "decode_reply"
                /\ res.kind \in { "ApduBadStatus", "Unsupported" }
                /\ 0 < sent_length /\ sent_length < Len(message)
                /\ op' = "encode_next" /\ apdu_size' > 5) =>
              /\ out' = "Some"
              /\ pkt'[4] = 128
              /\ Drop(pkt', 5) = SubSeq(message, sent_length + 1, sent_length')
              /\ sent_length' > sent_length ]_vars

\* C18 witness: SignMessagePrepare has recorded the failing status word
\* 0x6A80 and has since returned its third packet, a continuation packet
\* with the last byte of a three-byte message
C18_Witness ==
    /\ cmd = "SignMessagePrepare"
    /\ op = "encode_next" /\ out = "Some"
    /\ npkts = 3
    /\ pkt[4] = 128
    /\ sent_length = 3
    /\ sw = 27264

\* C19: state after a failed decode_reply: a decode_reply that fails with
\* UnexpectedEof (any command) or Unsupported (SignMessagePrepare) leaves
\* the recorded status word and reply as they were; a decode_reply that
\* fails with ApduBadStatus(w) has recorded w and the payload of the
\* failing reply, and an into_reply that follows returns that w.
C19_StateAfterFailure ==
    [][ /\ (op' = "decode_reply" /\ res'.kind \in { "UnexpectedEof", "Unsupported" }) =>
              (recorded' = recorded)
        /\ (op' = "decode_reply" /\ res'.kind = "ApduBadStatus") =>
              /\ res'.code = BigEndianStatus(data')
              /\ IntoReply' = << res'.code, SubSeq(data', 1, Len(data') - 2) >>
        /\ (op = "decode_reply" /\ res.kind = "ApduBadStatus" /\ op' = "into_reply") =>
              (taken'[1] = res.code) ]_vars

\* C19 witness: SignMessagePrepare keeps the status word 0x6A80 and the
\* one-byte payload it recorded from a reply that failed with
\* ApduBadStatus, after a later reply has failed with Unsupported
C19_Witness ==
    /\ cmd = "SignMessagePrepare"
    /\ op = "decode_reply"
    /\ res = Unsupported
    /\ sw = 27264
    /\ reply = << 171 >>

\* C20: progress-marker invariant: SignMessagePrepare keeps
\* 0 <= sent_length <= message length and GetTrustedInput keeps
\* sent_cuts <= number of cuts - 1, before and after every call; neither
\* marker ever decreases; no encode_next call executes unreachable!(); and
\* an encode_next call made when the marker is at its bound returns
\* nothing and changes neither the marker nor anything recorded.
C20_ProgressMarker ==
    [][ /\ (cmd = "SignMessagePrepare") =>
              /\ 0 <= sent_length /\ sent_length <= Len(message)
              /\ 0 <= sent_length' /\ sent_length' <= Len(message)
              /\ sent_length <= sent_length'
        /\ (cmd = "GetTrustedInput") =>
              /\ sent_cuts <= Len(cuts) - 1
              /\ sent_cuts' <= Len(cuts) - 1
              /\ sent_cuts <= sent_cuts'
        /\ out' # "unreachable"
        /\ (cmd \in { "SignMessagePrepare", "GetTrustedInput" }
                /\ op' = "encode_next" /\ Remaining = 0) =>
              /\ out' = "None"
              /\ progress' = progress
              /\ recorded' = recorded
              /\ fields' = fields ]_vars

\* C20 witness: SignMessagePrepare has sent its 300-byte message, the
\* marker stands at the message length, and encode_next returned nothing
C20_Witness ==
    /\ cmd = "SignMessagePrepare"
    /\ Len(message) = LongLen
    /\ sent_length = Len(message)
    /\ npkts = 1
    /\ op = "encode_next" /\ out = "None"

====
